---- MODULE Spec2Model ----
(***************************************************************************)
(* A model of sigshell (src/sigshell.c): the shell process, the children   *)
(* it forks, the controlling terminal's foreground process group and the   *)
(* signals the terminal and other processes send.                          *)
(*                                                                         *)
(* The shell is one sequential process (pc is its position in main /       *)
(* init_shell / execute_command); every child is a sequential process of   *)
(* its own (cpc is its position in the child branch of execute_command);   *)
(* the kernel's process, signal and terminal primitives are modelled by    *)
(* what POSIX makes them do.                                               *)
(***************************************************************************)
EXTENDS Integers, FiniteSets, Sequences, TLC

(* ------------------------------ bounds -------------------------------- *)
\* number of external commands the session launches
MaxCmds == 2
\* number of signals the environment (keyboard, other processes) sends
MaxSignals == 2
\* length of the command names should_protect_sigint is tried on
MaxNameLen == 5

(* --------------------------- signal numbers --------------------------- *)
SIGINT == 2
SIGQUIT == 3
SIGKILL == 9
SIGCONT == 18
SIGTSTP == 20
SIGTTIN == 21
SIGTTOU == 22

\* the signals whose disposition the program sets somewhere
DispSigs == {SIGINT, SIGQUIT, SIGTSTP, SIGTTIN, SIGTTOU}
StopSigs == {SIGTSTP, SIGTTIN, SIGTTOU}
\* signals another process may send to a child
EnvChildSigs == {SIGINT, SIGQUIT, SIGKILL, SIGCONT, SIGTSTP}
\* signals another process may send to the shell
EnvShellSigs == {SIGINT, SIGQUIT, SIGCONT, SIGTSTP}

(* ------------------------------ processes ----------------------------- *)
\* the process (and process group) that started the shell
LeaderPid == 1
ShellPid == 2
ChildPids == (ShellPid + 1)..(ShellPid + MaxCmds)

\* C strings are sequences of characters
S_sleep == <<"s", "l", "e", "e", "p">>
S_critical == <<"c", "r", "i", "t", "i", "c", "a", "l">>
S_cat == <<"c", "a", "t">>
S_exit == <<"e", "x", "i", "t">>
S_help == <<"h", "e", "l", "p">>
S_cd == <<"c", "d">>

\* argv[0] of the external commands typed at the prompt
Commands == {S_sleep, S_critical, S_cat}
\* the lines one fgets of the main loop can bring, by their first word: an
\* empty line, a built-in, an external command
Inputs == {<<>>, S_exit, S_help, S_cd} \cup Commands
\* exit codes of the programs the children run
ExitCodes == {0, 255}

VARIABLES
  interactive, \* isatty(STDIN_FILENO)
  sigMode,     \* semantics of signal() in this build: "bsd" or "sysv",
               \* "none" until signal() is first called
  shell_pgid,  \* the global pid_t shell_pgid
  shell,       \* the shell process: state, pgid, dispositions, pending signals
  pc,          \* the shell's position
  tty_fg,      \* the terminal's foreground process group (tcgetpgrp)
  child,       \* the children, by pid
  cur,         \* execute_command's locals: pid, protect_sigint, args[0]
  outcome,     \* what execute_command reported since the last prompt
  nsig         \* signals sent by the environment so far

vars == <<interactive, sigMode, shell_pgid, shell, pc, tty_fg, child, cur,
          outcome, nsig>>

NoDisp == [s \in DispSigs |-> "DFL"]

NoChild ==
  [state |-> "none", cpc |-> "none", pgid |-> 0, disp |-> NoDisp,
   pending |-> {}, how |-> "none", val |-> 0, name |-> <<>>, protect |-> FALSE,
   waits |-> 0]

NoCur == [pid |-> 0, protect |-> FALSE, name |-> <<>>]
NoOutcome == [kind |-> "none", val |-> 0, pid |-> 0]

Live(p) == p.state \in {"alive", "stopped"}

(* ------------------------- kernel: signals ---------------------------- *)
\* signal(): a caught signal's disposition after its handler ran. With
\* System V semantics (what glibc gives when _POSIX_C_SOURCE is defined
\* without _DEFAULT_SOURCE) the handler is reset to SIG_DFL; with BSD
\* semantics it stays installed.
AfterHandler(p, sig) ==
  IF sigMode = "sysv" THEN [p EXCEPT !.disp[sig] = "DFL"] ELSE p

\* process p terminates (how: "exit" or "signal"): what is left is a
\* zombie, which has a status and a process group and nothing else
Terminate(p, how, val) ==
  [p EXCEPT !.state = "zombie", !.how = how, !.val = val, !.pending = {},
            !.disp = NoDisp]

\* the default action of sig on a running process
DefaultAction(p, sig) ==
  IF sig \in StopSigs
    THEN [p EXCEPT !.state = "stopped", !.how = "stop", !.val = sig]
    ELSE Terminate(p, "signal", sig)

\* a signal that is neither SIGKILL nor SIGCONT, delivered to a running
\* process
Act(p, sig) ==
  CASE p.disp[sig] = "IGN" -> p
    [] p.disp[sig] = "CATCH" -> AfterHandler(p, sig)
    [] OTHER -> DefaultAction(p, sig)

\* SIGCONT: the process runs again and its pending signals are delivered,
\* lowest number first
Continue(p) ==
  LET q == [p EXCEPT !.state = "alive", !.pending = {}]
      q1 == IF SIGINT \in p.pending THEN Act(q, SIGINT) ELSE q
  IN IF SIGQUIT \in p.pending /\ q1.state = "alive" THEN Act(q1, SIGQUIT)
     ELSE q1

\* the effect of generating sig for process p
Deliver(p, sig) ==
  CASE ~Live(p) -> p
    [] sig = SIGKILL -> Terminate(p, "signal", SIGKILL)
    [] sig = SIGCONT -> IF p.state = "stopped" THEN Continue(p) ELSE p
    [] p.disp[sig] = "IGN" -> p
    [] p.state = "stopped" ->
         IF sig \in StopSigs THEN p ELSE [p EXCEPT !.pending = @ \cup {sig}]
    [] OTHER -> Act(p, sig)

(* ---------------------- kernel: process groups ----------------------- *)
\* the processes that are members of process group g (a zombie stays a
\* member of its group until it is reaped)
GroupExists(g) ==
  \/ g = LeaderPid
  \/ shell.pgid = g
  \/ \E c \in ChildPids :
       child[c].state \in {"alive", "stopped", "zombie"} /\ child[c].pgid = g

\* the processes of group g that a signal can still act on
GroupMembers(g) ==
  {p \in {ShellPid} : Live(shell) /\ shell.pgid = g}
    \cup {c \in ChildPids : Live(child[c]) /\ child[c].pgid = g}

\* setpgid(pid, pgid) called by process caller: pid 0 names the caller and
\* pgid 0 names the target's own pid; the target must be the caller or a
\* child of it that has not called exec, and the group must be the
\* target's own or an existing one (otherwise ESRCH / EPERM, no effect)
SetpgidTarget(caller, pid) == IF pid = 0 THEN caller ELSE pid
SetpgidGroup(caller, pid, pgid) ==
  IF pgid = 0 THEN SetpgidTarget(caller, pid) ELSE pgid
SetpgidOk(caller, pid, pgid) ==
  LET t == SetpgidTarget(caller, pid)
      g == SetpgidGroup(caller, pid, pgid)
  IN /\ \/ t = caller
        \/ /\ caller = ShellPid
           /\ t \in ChildPids
           /\ Live(child[t])
           /\ child[t].cpc # "program"
     /\ g = t \/ GroupExists(g)

\* tcsetpgrp(STDIN_FILENO, g) called by the shell: the foreground group
\* becomes g when g is a process group of the session, and the call fails
\* (EPERM) leaving the terminal as it was otherwise. The shell calls it
\* from the foreground group or with SIGTTOU ignored, so it is never
\* stopped by it.
Tcsetpgrp(g) == IF GroupExists(g) THEN g ELSE tty_fg

(* ------------------------ kernel: wait status ------------------------- *)
\* the status word waitpid stores for a child's state change
WStatus(p) ==
  CASE p.how = "exit" -> (p.val % 256) * 256
    [] p.how = "signal" -> p.val + (IF p.val = SIGQUIT THEN 128 ELSE 0)
    [] p.how = "stop" -> p.val * 256 + 127
    [] OTHER -> 0

WIFSTOPPED(status) == status % 256 = 127
WIFEXITED(status) == status % 128 = 0
WIFSIGNALED(status) == status % 128 # 0 /\ status % 128 # 127
WEXITSTATUS(status) == (status \div 256) % 256
WTERMSIG(status) == status % 128

(* --------------------------- pure functions --------------------------- *)
\* a comparison that stops at the end of the second string, as
\* strncmp(a, b, strlen(b)) does
RECURSIVE strcmp_Prefix(_, _)
strcmp_Prefix(a, b) ==
  CASE b = <<>> -> 0
    [] a = <<>> -> 1
    [] Head(a) # Head(b) -> 1
    [] OTHER -> strcmp_Prefix(Tail(a), Tail(b))

\* strcmp(a, b): the strings are compared character by character up to
\* and including their ends; 0 when they are equal, and otherwise a
\* non-zero value, of which the callers use only that it is not 0
RECURSIVE strcmp(_, _)
strcmp(a, b) ==
  CASE a = <<>> /\ b = <<>> -> 0
    [] a = <<>> \/ b = <<>> -> 1
    [] Head(a) # Head(b) -> 1
    [] OTHER -> strcmp(Tail(a), Tail(b))

protected == <<S_sleep, S_critical>>

\* should_protect_sigint: strcmp against each entry of protected[]
should_protect_sigint(cmd) ==
  \E i \in 1..Len(protected) : strcmp(cmd, protected[i]) = 0

\* handle_builtin's return value for args[0]
handle_builtin(arg0) ==
  CASE strcmp(arg0, S_exit) = 0 -> 2
    [] strcmp(arg0, S_help) = 0 -> 1
    [] strcmp(arg0, S_cd) = 0 -> 1
    [] OTHER -> 0

\* a classification that has no branch for a stopped child
Classify_NoStopBranch(result, status, pid) ==
  IF result > 0
    THEN CASE WIFEXITED(status) ->
                [kind |-> "exited", val |-> WEXITSTATUS(status), pid |-> pid]
           [] WIFSIGNALED(status) ->
                [kind |-> "signaled", val |-> WTERMSIG(status), pid |-> pid]
           [] OTHER -> [kind |-> "none", val |-> 0, pid |-> pid]
    ELSE [kind |-> "waitfailed", val |-> 0, pid |-> pid]

\* the branch of execute_command taken for waitpid's result and status
Classify(result, status, pid) ==
  IF result > 0
    THEN CASE WIFSTOPPED(status) ->
                [kind |-> "stopped", val |-> 0, pid |-> pid]
           [] WIFEXITED(status) ->
                [kind |-> "exited", val |-> WEXITSTATUS(status), pid |-> pid]
           [] WIFSIGNALED(status) ->
                [kind |-> "signaled", val |-> WTERMSIG(status), pid |-> pid]
           [] OTHER -> [kind |-> "none", val |-> 0, pid |-> pid]
    ELSE [kind |-> "waitfailed", val |-> 0, pid |-> pid]

(* ------------------------------- Init --------------------------------- *)
\* The state at the start of main: the shell was started either as the
\* leader of its own process group or inside the group of the process
\* that started it, in the terminal's foreground or not; all dispositions
\* are the defaults; shell_pgid is a zero-initialised global.
Init ==
  /\ interactive \in BOOLEAN
  /\ sigMode = "none"
  /\ shell_pgid = 0
  /\ \E g \in {ShellPid, LeaderPid} :
       /\ shell = [state |-> "alive", pgid |-> g, disp |-> NoDisp,
                   pending |-> {}, how |-> "none", val |-> 0]
       /\ tty_fg \in {g, LeaderPid}
  /\ pc = "init"
  /\ child = [c \in ChildPids |-> NoChild]
  /\ cur = NoCur
  /\ outcome = NoOutcome
  /\ nsig = 0

Running == shell.state = "alive"

(* ----------------------------- init_shell ----------------------------- *)
\* isatty(STDIN_FILENO) is false: init_shell does nothing
InitNoTty ==
  /\ Running /\ pc = "init" /\ ~interactive
  /\ pc' = "prompt"
  /\ UNCHANGED <<interactive, sigMode, shell_pgid, shell, tty_fg, child, cur,
                 outcome, nsig>>

\* one evaluation of the loop condition, and the loop body when it holds:
\* kill(-shell_pgid, SIGTTIN) reaches the shell itself
InitLoop ==
  /\ Running /\ pc = "init" /\ interactive
  /\ shell_pgid' = shell.pgid
  /\ IF tty_fg = shell.pgid
       THEN pc' = "init_signals" /\ shell' = shell
       ELSE pc' = pc /\ shell' = Deliver(shell, SIGTTIN)
  /\ UNCHANGED <<interactive, sigMode, tty_fg, child, cur, outcome, nsig>>

\* the job control of the process that started the shell brings the
\* stopped shell to the foreground and continues it
JobControlFg ==
  /\ pc = "init" /\ shell.state = "stopped"
  /\ tty_fg' = shell.pgid
  /\ shell' = Deliver(shell, SIGCONT)
  /\ UNCHANGED <<interactive, sigMode, shell_pgid, pc, child, cur, outcome,
                 nsig>>

\* the signal() calls without the one for SIGTSTP
ShellDisp_NoTstp ==
  [s \in DispSigs |-> CASE s = SIGINT -> "CATCH"
                         [] s = SIGTSTP -> "DFL"
                         [] OTHER -> "IGN"]

\* the five signal() calls
ShellDisp ==
  [s \in DispSigs |-> IF s = SIGINT THEN "CATCH" ELSE "IGN"]

InitSignals ==
  /\ Running /\ pc = "init_signals"
  /\ sigMode' \in {"bsd", "sysv"}
  /\ shell' = [shell EXCEPT !.disp = ShellDisp]
  /\ pc' = "init_setpgid"
  /\ UNCHANGED <<interactive, shell_pgid, tty_fg, child, cur, outcome, nsig>>

\* the shell moved into a group of its own, setpgid(0, 0), with shell_pgid
\* left as it was read
InitSetpgid_OwnGroup ==
  /\ Running /\ pc = "init_setpgid"
  /\ shell' = [shell EXCEPT !.pgid = SetpgidGroup(ShellPid, 0, 0)]
  /\ pc' = "init_tcsetpgrp"
  /\ UNCHANGED <<interactive, sigMode, shell_pgid, tty_fg, child, cur,
                 outcome, nsig>>

\* setpgid(shell_pgid, shell_pgid)
InitSetpgid ==
  /\ Running /\ pc = "init_setpgid"
  /\ shell' = IF /\ SetpgidOk(ShellPid, shell_pgid, shell_pgid)
                 /\ SetpgidTarget(ShellPid, shell_pgid) = ShellPid
                THEN [shell EXCEPT
                        !.pgid = SetpgidGroup(ShellPid, shell_pgid, shell_pgid)]
                ELSE shell
  /\ pc' = "init_tcsetpgrp"
  /\ UNCHANGED <<interactive, sigMode, shell_pgid, tty_fg, child, cur,
                 outcome, nsig>>

\* tcsetpgrp(STDIN_FILENO, shell_pgid); tcgetattr(...)
InitTcsetpgrp ==
  /\ Running /\ pc = "init_tcsetpgrp"
  /\ tty_fg' = Tcsetpgrp(shell_pgid)
  /\ pc' = "prompt"
  /\ UNCHANGED <<interactive, sigMode, shell_pgid, shell, child, cur, outcome,
                 nsig>>

(* -------------------------------- main -------------------------------- *)
\* printf("sigshell> "); fflush(stdout); and the call of fgets
ShowPrompt ==
  /\ Running /\ pc = "prompt"
  /\ pc' = "read"
  /\ outcome' = NoOutcome
  /\ UNCHANGED <<interactive, sigMode, shell_pgid, shell, tty_fg, child, cur,
                 nsig>>

\* children forked so far, and the pid the next fork returns
Forked == {c \in ChildPids : child[c].state # "none"}
NextPid == ShellPid + 1 + Cardinality(Forked)

\* fgets returns NULL at the end of the input: the loop ends and main
\* returns 0
ReadEof ==
  /\ Running /\ pc = "read"
  /\ pc' = "done"
  /\ shell' = Terminate(shell, "exit", 0)
  /\ UNCHANGED <<interactive, sigMode, shell_pgid, tty_fg, child, cur,
                 outcome, nsig>>

\* fgets returns a line: exit ends the loop, an empty line and the other
\* built-ins go back to the prompt, anything else is passed to
\* execute_command with the protect flag of should_protect_sigint
ReadLine(line) ==
  /\ Running /\ pc = "read"
  /\ line \in Commands => NextPid \in ChildPids
  /\ IF line # <<>> /\ handle_builtin(line) = 2
       THEN /\ pc' = "done"
            /\ shell' = Terminate(shell, "exit", 0)
            /\ cur' = cur
       ELSE IF line = <<>> \/ handle_builtin(line) = 1
         THEN pc' = "prompt" /\ shell' = shell /\ cur' = cur
         ELSE /\ pc' = "fork"
              /\ shell' = shell
              /\ cur' = [pid |-> 0, protect |-> should_protect_sigint(line),
                         name |-> line]
  /\ UNCHANGED <<interactive, sigMode, shell_pgid, tty_fg, child, outcome,
                 nsig>>

(* --------------------------- execute_command -------------------------- *)
\* the child fork() creates: a copy of the shell, in the shell's process
\* group, with the shell's dispositions and no pending signal
NewChild ==
  [state |-> "alive", cpc |-> "setpgid", pgid |-> shell.pgid,
   disp |-> shell.disp, pending |-> {}, how |-> "none", val |-> 0,
   name |-> cur.name, protect |-> cur.protect, waits |-> 0]

\* pid = fork() succeeds
Fork ==
  /\ Running /\ pc = "fork"
  /\ NextPid \in ChildPids
  /\ child' = [child EXCEPT ![NextPid] = NewChild]
  /\ cur' = [cur EXCEPT !.pid = NextPid]
  /\ pc' = "grant"
  /\ UNCHANGED <<interactive, sigMode, shell_pgid, shell, tty_fg, outcome,
                 nsig>>

\* a fork failure that goes on to the reclaim step instead of returning
ForkFailed_ThenReclaim ==
  /\ Running /\ pc = "fork"
  /\ outcome' = [kind |-> "forkfailed", val |-> 0, pid |-> 0]
  /\ cur' = NoCur
  /\ pc' = "reclaim"
  /\ UNCHANGED <<interactive, sigMode, shell_pgid, shell, tty_fg, child, nsig>>

\* pid < 0: perror("fork failed"); return;
ForkFailed ==
  /\ Running /\ pc = "fork"
  /\ outcome' = [kind |-> "forkfailed", val |-> 0, pid |-> 0]
  /\ cur' = NoCur
  /\ pc' = "prompt"
  /\ UNCHANGED <<interactive, sigMode, shell_pgid, shell, tty_fg, child, nsig>>

\* a grant made without asking isatty
Grant_NoIsatty ==
  /\ Running /\ pc = "grant"
  /\ tty_fg' = Tcsetpgrp(cur.pid)
  /\ child' = [child EXCEPT ![cur.pid].waits = @ + 1]
  /\ pc' = "wait"
  /\ UNCHANGED <<interactive, sigMode, shell_pgid, shell, cur, outcome, nsig>>

\* parent, step 1: tcsetpgrp(STDIN_FILENO, child_pgid) on a terminal, then
\* the call of waitpid(pid, &status, WUNTRACED)
Grant ==
  /\ Running /\ pc = "grant"
  /\ tty_fg' = IF interactive THEN Tcsetpgrp(cur.pid) ELSE tty_fg
  /\ child' = [child EXCEPT ![cur.pid].waits = @ + 1]
  /\ pc' = "wait"
  /\ UNCHANGED <<interactive, sigMode, shell_pgid, shell, cur, outcome, nsig>>

\* waitpid(pid, &status, WUNTRACED) returns for a child that terminated
\* or is stopped, and blocks otherwise
Waitable(p) == p.state \in {"zombie", "stopped"}

\* waitpid on a terminated child releases it: the process is gone, and
\* what the model keeps of it is that it was waited for; a stopped child
\* stays as it is
Reap(p) ==
  IF p.state = "zombie"
    THEN [NoChild EXCEPT !.state = "reaped", !.waits = p.waits]
    ELSE p

\* a wait that is issued again when the child was reported as stopped
WaitReturn_Retry ==
  /\ Running /\ pc = "wait"
  /\ Waitable(child[cur.pid])
  /\ outcome' = Classify(cur.pid, WStatus(child[cur.pid]), cur.pid)
  /\ IF child[cur.pid].state = "stopped"
       THEN /\ child' = [child EXCEPT ![cur.pid].waits = @ + 1]
            /\ pc' = "wait"
       ELSE /\ child' = [child EXCEPT ![cur.pid] = Reap(@)]
            /\ pc' = "reclaim"
  /\ UNCHANGED <<interactive, sigMode, shell_pgid, shell, tty_fg, cur, nsig>>

\* parent, step 2: waitpid returns the pid for a child that terminated
\* (which it reaps) or is stopped (which it leaves as it is), and the
\* status is classified
WaitReturn ==
  /\ Running /\ pc = "wait"
  /\ Waitable(child[cur.pid])
  /\ outcome' = Classify(cur.pid, WStatus(child[cur.pid]), cur.pid)
  /\ child' = [child EXCEPT ![cur.pid] = Reap(@)]
  /\ pc' = "reclaim"
  /\ UNCHANGED <<interactive, sigMode, shell_pgid, shell, tty_fg, cur, nsig>>

\* a reclaim that is skipped when the child was stopped
Reclaim_NotWhenStopped ==
  /\ Running /\ pc = "reclaim"
  /\ tty_fg' = IF interactive /\ outcome.kind # "stopped"
                 THEN Tcsetpgrp(shell_pgid) ELSE tty_fg
  /\ cur' = NoCur
  /\ pc' = "prompt"
  /\ UNCHANGED <<interactive, sigMode, shell_pgid, shell, child, outcome,
                 nsig>>

\* a reclaim that is made only when waitpid succeeded
Reclaim_OnlyAfterSuccess ==
  /\ Running /\ pc = "reclaim"
  /\ tty_fg' = IF interactive /\ outcome.kind # "waitfailed"
                 THEN Tcsetpgrp(shell_pgid) ELSE tty_fg
  /\ cur' = NoCur
  /\ pc' = "prompt"
  /\ UNCHANGED <<interactive, sigMode, shell_pgid, shell, child, outcome,
                 nsig>>

\* a reclaim that hands the terminal to the group of the job again
Reclaim_ToJob ==
  /\ Running /\ pc = "reclaim"
  /\ tty_fg' = IF interactive THEN Tcsetpgrp(cur.pid) ELSE tty_fg
  /\ cur' = NoCur
  /\ pc' = "prompt"
  /\ UNCHANGED <<interactive, sigMode, shell_pgid, shell, child, outcome,
                 nsig>>

\* parent, step 3: tcsetpgrp(STDIN_FILENO, shell_pgid) on a terminal, and
\* the return to the main loop
Reclaim ==
  /\ Running /\ pc = "reclaim"
  /\ tty_fg' = IF interactive THEN Tcsetpgrp(shell_pgid) ELSE tty_fg
  /\ cur' = NoCur
  /\ pc' = "prompt"
  /\ UNCHANGED <<interactive, sigMode, shell_pgid, shell, child, outcome,
                 nsig>>

(* ------------------- execute_command, in the child -------------------- *)
CanStep(c, at) == child[c].state = "alive" /\ child[c].cpc = at

\* a child that stays in the group it was forked in
ChildSetpgid_Skipped(c) ==
  /\ CanStep(c, "setpgid")
  /\ child' = [child EXCEPT ![c].cpc = "sigtstp"]
  /\ UNCHANGED <<interactive, sigMode, shell_pgid, shell, pc, tty_fg, cur,
                 outcome, nsig>>

\* 1. setpgid(0, 0)
ChildSetpgid(c) ==
  /\ CanStep(c, "setpgid")
  /\ child' = [child EXCEPT
       ![c].pgid = IF SetpgidOk(c, 0, 0) THEN SetpgidGroup(c, 0, 0) ELSE @,
       ![c].cpc = "sigtstp"]
  /\ UNCHANGED <<interactive, sigMode, shell_pgid, shell, pc, tty_fg, cur,
                 outcome, nsig>>

\* a child that leaves the stop signal as it inherited it
ChildSigtstp_Inherited(c) ==
  /\ CanStep(c, "sigtstp")
  /\ child' = [child EXCEPT ![c].cpc = "sigint"]
  /\ UNCHANGED <<interactive, sigMode, shell_pgid, shell, pc, tty_fg, cur,
                 outcome, nsig>>

\* 2. sigaction(SIGTSTP, SIG_DFL)
ChildSigtstp(c) ==
  /\ CanStep(c, "sigtstp")
  /\ child' = [child EXCEPT ![c].disp[SIGTSTP] = "DFL", ![c].cpc = "sigint"]
  /\ UNCHANGED <<interactive, sigMode, shell_pgid, shell, pc, tty_fg, cur,
                 outcome, nsig>>

\* the two branches of if (protect_sigint) exchanged
ChildSigintDisp_Swapped(protect_sigint) ==
  IF protect_sigint THEN "DFL" ELSE "IGN"

\* the disposition the child gives SIGINT
ChildSigintDisp(protect_sigint) == IF protect_sigint THEN "IGN" ELSE "DFL"

\* sigaction(SIGINT, ...) in either branch of if (protect_sigint)
ChildSigint(c) ==
  /\ CanStep(c, "sigint")
  /\ child' = [child EXCEPT
       ![c].disp[SIGINT] = ChildSigintDisp(child[c].protect),
       ![c].cpc = "exec"]
  /\ UNCHANGED <<interactive, sigMode, shell_pgid, shell, pc, tty_fg, cur,
                 outcome, nsig>>

\* a child that sets every disposition to the default before execvp
ChildExec_ResetsAll(c) ==
  /\ CanStep(c, "exec")
  /\ child' = [child EXCEPT ![c].disp = NoDisp, ![c].cpc = "program"]
  /\ UNCHANGED <<interactive, sigMode, shell_pgid, shell, pc, tty_fg, cur,
                 outcome, nsig>>

\* execvp succeeds: the new image keeps the ignored dispositions and has
\* the caught ones reset to the default
ChildExec(c) ==
  /\ CanStep(c, "exec")
  /\ child' = [child EXCEPT
       ![c].disp = [s \in DispSigs |-> IF @[s] = "CATCH" THEN "DFL" ELSE @[s]],
       ![c].cpc = "program"]
  /\ UNCHANGED <<interactive, sigMode, shell_pgid, shell, pc, tty_fg, cur,
                 outcome, nsig>>

\* a failed execvp after which the child ends with exit(0)
ChildExecFailed_Status0(c) ==
  /\ CanStep(c, "exec")
  /\ child' = [child EXCEPT ![c] = Terminate(@, "exit", 0)]
  /\ UNCHANGED <<interactive, sigMode, shell_pgid, shell, pc, tty_fg, cur,
                 outcome, nsig>>

\* execvp fails: perror(...); exit(1);
ChildExecFailed(c) ==
  /\ CanStep(c, "exec")
  /\ child' = [child EXCEPT ![c] = Terminate(@, "exit", 1)]
  /\ UNCHANGED <<interactive, sigMode, shell_pgid, shell, pc, tty_fg, cur,
                 outcome, nsig>>

\* the program the child runs ends with exit(code)
ChildExit(c, code) ==
  /\ CanStep(c, "program")
  /\ child' = [child EXCEPT ![c] = Terminate(@, "exit", code)]
  /\ UNCHANGED <<interactive, sigMode, shell_pgid, shell, pc, tty_fg, cur,
                 outcome, nsig>>

(* ----------------------------- environment ---------------------------- *)
\* sigint_handler ran in the shell and signal() installed it without
\* SA_RESTART: the blocking call the shell was in returns -1 with EINTR
Interrupts(sig, hit) ==
  /\ hit
  /\ shell.state = "alive"
  /\ sig \in DispSigs
  /\ shell.disp[sig] = "CATCH"
  /\ sigMode = "sysv"

\* int status is not initialised and waitpid does not store into it when
\* it fails: it holds any value, here the status words of an exit, of a
\* kill and of a stop
UnsetStatus ==
  {WStatus([how |-> "exit", val |-> 0]),
   WStatus([how |-> "signal", val |-> SIGINT]),
   WStatus([how |-> "stop", val |-> SIGTSTP])}

\* sig is generated for every process of targets
Signal(sig, targets) ==
  /\ nsig < MaxSignals
  /\ nsig' = nsig + 1
  /\ shell' = IF ShellPid \in targets THEN Deliver(shell, sig) ELSE shell
  /\ child' = [c \in ChildPids |->
                 IF c \in targets THEN Deliver(child[c], sig)
                 ELSE child[c]]
  /\ LET eintr == Interrupts(sig, ShellPid \in targets)
     IN CASE eintr /\ pc = "read" ->
               \* fgets returns NULL without end of file: continue;
               pc' = "prompt" /\ outcome' = outcome
          [] eintr /\ pc = "wait" /\ ~Waitable(child[cur.pid]) ->
               \* the blocked waitpid returns -1: perror("waitpid failed");
               \* when the same signal also ended or stopped the child,
               \* waitpid may see that first and go on to report it
               \/ /\ pc' = "reclaim"
                  /\ \E status \in UnsetStatus :
                       outcome' = Classify(-1, status, cur.pid)
               \/ /\ Waitable(child'[cur.pid])
                  /\ pc' = pc /\ outcome' = outcome
          [] OTHER -> pc' = pc /\ outcome' = outcome
  /\ UNCHANGED <<interactive, sigMode, shell_pgid, tty_fg, cur>>

\* the terminal's interrupt and suspend keys: the signal goes to the
\* terminal's foreground process group
KeySigs == {SIGINT, SIGTSTP}

Key(sig) ==
  /\ GroupMembers(tty_fg) # {}
  /\ Signal(sig, GroupMembers(tty_fg))

\* another process sends a signal to the shell or to one child
KillShell(sig) == Live(shell) /\ Signal(sig, {ShellPid})
KillChild(c, sig) == Live(child[c]) /\ Signal(sig, {c})

(* ----------------------------- the system ----------------------------- *)
Next ==
  \/ InitNoTty
  \/ InitLoop
  \/ JobControlFg
  \/ InitSignals
  \/ InitSetpgid
  \/ InitTcsetpgrp
  \/ ShowPrompt
  \/ ReadEof
  \/ \E line \in Inputs : ReadLine(line)
  \/ Fork
  \/ ForkFailed
  \/ Grant
  \/ WaitReturn
  \/ Reclaim
  \/ \E c \in ChildPids : ChildSetpgid(c)
  \/ \E c \in ChildPids : ChildSigtstp(c)
  \/ \E c \in ChildPids : ChildSigint(c)
  \/ \E c \in ChildPids : ChildExec(c)
  \/ \E c \in ChildPids : ChildExecFailed(c)
  \/ \E c \in ChildPids, code \in ExitCodes : ChildExit(c, code)
  \/ \E sig \in KeySigs : Key(sig)
  \/ \E sig \in EnvShellSigs : KillShell(sig)
  \/ \E c \in ChildPids, sig \in EnvChildSigs : KillChild(c, sig)

Spec == Init /\ [][Next]_vars

(* ------------------- should_protect_sigint on its own ------------------ *)
\* the command names the function is tried on: every string of at most
\* MaxNameLen of the letters of "sleep", the names of the program, and
\* names that differ from a protected one in case, by a prefix or by a
\* suffix
NameChars == {"s", "l", "e", "p"}
PolicyNames ==
  UNION {[1..n -> NameChars] : n \in 0..MaxNameLen}
    \cup {S_sleep, S_critical, S_cat, S_exit,
          <<"S", "l", "e", "e", "p">>,
          <<"S", "L", "E", "E", "P">>,
          S_sleep \o <<"y">>,
          S_sleep \o <<" ">>,
          <<"/">> \o S_sleep,
          SubSeq(S_critical, 1, 7),
          S_critical \o <<"l">>,
          <<"C">> \o Tail(S_critical),
          S_sleep \o S_critical}

\* main has parsed a line whose first word is any of the names
PolicyInit ==
  /\ interactive = FALSE
  /\ sigMode = "none"
  /\ shell_pgid = 0
  /\ shell = [state |-> "alive", pgid |-> ShellPid, disp |-> NoDisp,
              pending |-> {}, how |-> "none", val |-> 0]
  /\ tty_fg = ShellPid
  /\ pc = "policy"
  /\ child = [c \in ChildPids |-> NoChild]
  /\ \E n \in PolicyNames : cur = [NoCur EXCEPT !.name = n]
  /\ outcome = NoOutcome
  /\ nsig = 0

\* int protect = should_protect_sigint(args[0]);
PolicyCall ==
  /\ pc = "policy"
  /\ cur' = [cur EXCEPT !.protect = should_protect_sigint(cur.name)]
  /\ pc' = "policy_done"
  /\ UNCHANGED <<interactive, sigMode, shell_pgid, shell, tty_fg, child,
                 outcome, nsig>>

PolicyNext == PolicyCall

SpecPolicy == PolicyInit /\ [][PolicyNext]_vars

(* ============================ properties ============================== *)
\* the positions of the main loop and of execute_command
MainPcs == {"prompt", "read", "fork", "grant", "wait", "reclaim", "done"}

\* some earlier job has been waited for and is gone
SomeReaped == \E c \in ChildPids : child[c].state = "reaped"

\* C1: in an interactive session, when execute_command has returned after
\* its waitpid reported the child exited, killed by a signal or stopped,
\* the terminal's foreground process group is shell_pgid, the shell's
\* process group, before the main loop prints the next prompt.
C1_ForegroundReclaimed ==
  (interactive /\ pc = "prompt"
     /\ outcome.kind \in {"exited", "signaled", "stopped"})
    => (tty_fg = shell_pgid /\ shell_pgid = shell.pgid)

\* C1 witness: the prompt after a second job, which was stopped, the first
\* one having been waited for
C1_Witness ==
  /\ interactive /\ pc = "prompt" /\ Running
  /\ outcome.kind = "stopped"
  /\ child[outcome.pid].state = "stopped"
  /\ SomeReaped
  /\ tty_fg = shell_pgid

\* C2: in every state of an interactive session after initialization the
\* terminal's foreground group is the shell's group or the group of the one
\* job the shell is waiting on, and it is the shell's group whenever the
\* shell is not between the grant and the reclaim of a job.
C2_OneOwner ==
  (interactive /\ pc \in MainPcs) =>
    /\ tty_fg \in {shell.pgid, cur.pid}
    /\ tty_fg # shell.pgid =>
         /\ pc \in {"wait", "reclaim"}
         /\ cur.pid \in ChildPids
         /\ child[cur.pid].state = "reaped" \/ child[cur.pid].pgid = cur.pid
    /\ pc \notin {"wait", "reclaim"} => tty_fg = shell.pgid

\* C2 witness: the shell waits on a job that owns the terminal while an
\* earlier, stopped job does not
C2_Witness ==
  /\ interactive /\ pc = "wait" /\ Running
  /\ tty_fg = cur.pid
  /\ child[cur.pid].state = "alive"
  /\ \E c \in ChildPids : c # cur.pid /\ child[c].state = "stopped"

\* C3 (as claimed): in every interleaving of parent and child, the parent's
\* grant takes place only after the child created its process group with
\* setpgid(0, 0), so once the parent is past the grant the child is past
\* its setpgid.
C3_GrantAfterChildGroup ==
  (interactive /\ Running /\ pc \in {"wait", "reclaim"}
     /\ cur.pid \in ChildPids)
    => child[cur.pid].cpc # "setpgid"

\* C4 (as claimed): in an interactive session, all the time the shell is
\* blocked in waitpid the terminal's foreground group is the child's group
\* and the shell is not in it, so a keyboard interrupt does not reach the
\* shell.
C4_TerminalIsChildsWhileWaiting ==
  (interactive /\ Running /\ pc = "wait")
    => (tty_fg = cur.pid /\ ShellPid \notin GroupMembers(tty_fg))

\* the report of a state change, said without the status word
Expected(p, pid) ==
  CASE p.how = "exit" -> [kind |-> "exited", val |-> p.val, pid |-> pid]
    [] p.how = "signal" -> [kind |-> "signaled", val |-> p.val, pid |-> pid]
    [] p.how = "stop" -> [kind |-> "stopped", val |-> 0, pid |-> pid]
    [] OTHER -> [kind |-> "none", val |-> 0, pid |-> pid]

\* C5: from the moment a launched child is about to replace its process
\* image, its SIGINT disposition is "ignore" if the command name is sleep
\* or critical and the default otherwise; an interrupt generated for a
\* protected child leaves it exactly as it was, one generated for a running
\* unprotected child terminates it with SIGINT, and a protected child whose
\* program ended with exit(0) is reported as exited with code 0 when the
\* wait returns.
C5_InterruptPolicy ==
  /\ \A c \in ChildPids :
       (Live(child[c]) /\ child[c].cpc \in {"exec", "program"}) =>
         LET p == child[c]
             isProtected == p.name \in {S_sleep, S_critical}
         IN /\ p.protect = isProtected
            /\ p.disp[SIGINT] = IF isProtected THEN "IGN" ELSE "DFL"
            /\ isProtected => Deliver(p, SIGINT) = p
            /\ (~isProtected /\ p.state = "alive") =>
                 /\ Deliver(p, SIGINT).state = "zombie"
                 /\ Expected(Deliver(p, SIGINT), c) =
                      [kind |-> "signaled", val |-> SIGINT, pid |-> c]
  /\ (pc = "wait" /\ child[cur.pid].state = "zombie"
        /\ child[cur.pid].cpc = "program" /\ child[cur.pid].protect
        /\ child[cur.pid].how = "exit" /\ child[cur.pid].val = 0)
       => Classify(cur.pid, WStatus(child[cur.pid]), cur.pid) =
            [kind |-> "exited", val |-> 0, pid |-> cur.pid]

\* C5 witness: a protected child runs its program in the terminal's
\* foreground group while an unprotected one, which had started its
\* program, lies killed by an interrupt
C5_Witness ==
  \E c, d \in ChildPids :
    /\ child[c].cpc = "program" /\ child[c].state = "alive"
    /\ child[c].protect /\ child[c].name = S_sleep
    /\ tty_fg = c
    /\ child[d].cpc = "program" /\ child[d].state = "zombie"
    /\ ~child[d].protect
    /\ child[d].how = "signal" /\ child[d].val = SIGINT

\* C6: whatever the protect flag, from its sigaction(SIGTSTP) on, and so
\* when it replaces its process image, a child has the default disposition
\* for SIGTSTP, and a stop signal generated for it while it runs stops it.
C6_StopPolicy ==
  \A c \in ChildPids :
    (Live(child[c]) /\ child[c].cpc \in {"sigint", "exec", "program"}) =>
      /\ child[c].disp[SIGTSTP] = "DFL"
      /\ child[c].state = "alive" =>
           Deliver(child[c], SIGTSTP).state = "stopped"

\* C6 witness: a protected child that runs its program was stopped by
\* SIGTSTP in an interactive session
C6_Witness ==
  \E c \in ChildPids :
    /\ interactive
    /\ child[c].protect /\ child[c].cpc = "program"
    /\ child[c].state = "stopped"
    /\ child[c].how = "stop" /\ child[c].val = SIGTSTP

\* C7 (as claimed): once the main loop runs, the shell process is never
\* terminated by an interrupt signal.
C7_NeverKilledByInterrupt ==
  ~(pc \in MainPcs /\ shell.state = "zombie" /\ shell.how = "signal"
      /\ shell.val = SIGINT)

\* C8: whenever waitpid returns a child's state change, what the shell
\* reports is that change: exited with the code, terminated by the signal,
\* or stopped; a child that terminated is reaped by it, and a child
\* reported as stopped is left as it was and is still not reaped when
\* control is back at the prompt.
C8_Classification ==
  /\ [][(pc = "wait" /\ pc' = "reclaim"
           /\ child[cur.pid].state \in {"zombie", "stopped"})
          => /\ outcome' = Expected(child[cur.pid], cur.pid)
             /\ child[cur.pid].state = "zombie"
                  => child'[cur.pid].state = "reaped"
             /\ child[cur.pid].state = "stopped"
                  => child'[cur.pid] = child[cur.pid]]_vars
  /\ [](outcome.kind = "stopped" =>
          child[outcome.pid].state \in {"stopped", "alive", "zombie"})

\* C8 witness: back at the prompt after a job was reported as stopped, the
\* job still stopped and not reaped
C8_Witness ==
  /\ pc = "prompt" /\ Running
  /\ outcome.kind = "stopped"
  /\ child[outcome.pid].state = "stopped"
  /\ child[outcome.pid].waits = 1

\* C9: when waitpid returns without a state change of the child (it
\* failed), no exited, stopped or signalled outcome is reported and the
\* child is not reaped, and in an interactive session the terminal's
\* foreground group is shell_pgid again when the next prompt is due.
C9_WaitFailure ==
  /\ [][(pc = "wait" /\ pc' = "reclaim"
           /\ child[cur.pid].state \notin {"zombie", "stopped"})
          => /\ outcome'.kind = "waitfailed"
             /\ child'[cur.pid].state # "reaped"]_vars
  /\ []((interactive /\ pc = "prompt" /\ outcome.kind = "waitfailed")
          => (tty_fg = shell_pgid /\ shell_pgid = shell.pgid))

\* C9 witness: the prompt of an interactive session after a failed wait,
\* the child still running
C9_Witness ==
  /\ interactive /\ pc = "prompt" /\ Running
  /\ outcome.kind = "waitfailed"
  /\ child[outcome.pid].state = "alive"
  /\ tty_fg = shell_pgid

\* C10: a step that leaves the fork without a new child goes straight back
\* to the prompt and changes neither the terminal's foreground group nor
\* any process: no job, no wait.
C10_ForkFailure ==
  [][(pc = "fork" /\ pc' # "fork" /\ Forked' = Forked)
       => /\ pc' = "prompt"
          /\ outcome'.kind = "forkfailed"
          /\ tty_fg' = tty_fg
          /\ child' = child
          /\ shell' = shell]_vars

\* C10 witness: the prompt after a failed fork, in an interactive session
\* that ran a job before
C10_Witness ==
  /\ interactive /\ pc = "prompt" /\ Running
  /\ outcome.kind = "forkfailed"
  /\ SomeReaped
  /\ tty_fg = shell_pgid

\* C11: a child whose execvp fails terminates at once with exit status 1
\* and takes no further step; when the parent's wait returns for it, the
\* job is reported as exited with code 1, and no outcome other than those
\* of fork and wait exists for it.
C11_ExecFailure ==
  /\ [][\A c \in ChildPids :
          /\ (child[c].state = "alive" /\ child[c].cpc = "exec"
                /\ child'[c].how = "exit")
               => /\ child'[c].state = "zombie"
                  /\ child'[c].val = 1
                  /\ child'[c].cpc = "exec"
          /\ child[c].state = "zombie"
               => \/ child'[c].state = "reaped"
                  \/ /\ child'[c].state = "zombie"
                     /\ child'[c].cpc = child[c].cpc
                     /\ child'[c].how = child[c].how
                     /\ child'[c].val = child[c].val]_vars
  /\ [][(pc = "wait" /\ pc' = "reclaim"
           /\ child[cur.pid].state = "zombie"
           /\ child[cur.pid].cpc = "exec" /\ child[cur.pid].how = "exit")
          => outcome' = [kind |-> "exited", val |-> 1, pid |-> cur.pid]]_vars
  /\ [](outcome.kind \in {"none", "exited", "signaled", "stopped",
                          "waitfailed", "forkfailed"})

\* C11 witness: the prompt after a job whose program could not be
\* executed: reported as exited with code 1, and reaped
C11_Witness ==
  /\ pc = "prompt" /\ Running
  /\ outcome.kind = "exited" /\ outcome.val = 1
  /\ child[outcome.pid].state = "reaped"

\* C12: over the whole session every launched job is waited for exactly
\* once, by the execute_command that forked it, from the moment that call
\* enters waitpid; no later command waits on it again, and the shell never
\* resumes a stopped job (only a signal from outside does).
C12_OneWaitPerJob ==
  /\ [](\A c \in ChildPids :
          /\ child[c].waits <= 1
          /\ (c \in Forked /\ ~(c = cur.pid /\ pc = "grant"))
               => child[c].waits = 1)
  /\ [][\A c \in ChildPids :
          /\ child'[c].waits # child[c].waits
               => (pc = "grant" /\ c = cur.pid)
          /\ (child[c].state = "stopped" /\ child'[c].state # "stopped")
               => nsig' = nsig + 1]_vars

\* C12 witness: at the prompt, an earlier job is still stopped and a later
\* one is gone, each waited for once
C12_Witness ==
  /\ pc = "prompt" /\ Running
  /\ \E c, d \in ChildPids :
       /\ c < d
       /\ child[c].state = "stopped" /\ child[c].waits = 1
       /\ child[d].state = "reaped" /\ child[d].waits = 1

\* C13 (as claimed): at every prompt no terminated child of the shell is
\* left unreaped.
C13_NoZombieAtPrompt ==
  (Running /\ pc \in {"prompt", "read"})
    => \A c \in ChildPids : child[c].state # "zombie"

\* C14 (as claimed): once init_shell has completed, shell_pgid is the
\* process group id of the shell process in every later state.
C14_ShellPgidIsShellsGroup ==
  pc \in MainPcs => shell_pgid = shell.pgid

\* C14 (amended): in an interactive session shell_pgid is the shell's
\* process group id in every state after init_shell; in a session whose
\* standard input is no terminal init_shell leaves it 0; in both, no step
\* after init_shell changes it.
C14_ShellPgidWhenInteractive ==
  /\ []((interactive /\ pc \in MainPcs) => shell_pgid = shell.pgid)
  /\ [](~interactive => shell_pgid = 0)
  /\ [][(pc \in MainPcs) => (shell_pgid' = shell_pgid)]_vars

\* C14 witness: an interactive shell that was started inside the group of
\* another process, at the prompt after a job
C14_Witness ==
  /\ interactive /\ pc = "prompt" /\ Running
  /\ SomeReaped
  /\ shell.pgid = LeaderPid
  /\ shell_pgid = shell.pgid

\* C15: should_protect_sigint(name) is true exactly when name is "sleep"
\* or "critical", character for character, and the call changes nothing
\* but the flag it returns.
C15_ExactMatch ==
  /\ [](pc = "policy_done" =>
          (cur.protect <=> cur.name \in {S_sleep, S_critical}))
  /\ [][pc = "policy" =>
          /\ cur'.name = cur.name /\ cur'.pid = cur.pid
          /\ UNCHANGED <<interactive, sigMode, shell_pgid, shell, tty_fg,
                         child, outcome, nsig>>]_vars

\* C15 witness: the function was called on "sleepy", of which "sleep" is a
\* prefix, and returned false
C15_Witness ==
  /\ pc = "policy_done"
  /\ cur.name = S_sleep \o <<"y">>
  /\ ~cur.protect

\* C16 (as claimed): in an interactive terminal, when init_shell has
\* completed the shell is in a process group of its own (its process
\* group id is its process id) and that group is the terminal's foreground
\* group.
C16_OwnGroupInForeground ==
  (interactive /\ pc = "prompt")
    => (shell.pgid = ShellPid /\ tty_fg = shell.pgid)

\* C17: a child that has changed a signal disposition or has started the
\* requested program has already put itself in the process group named by
\* its own pid, which is not the shell's group.
C17_GroupBeforeDispositions ==
  \A c \in ChildPids :
    child[c].cpc \in {"sigint", "exec", "program"}
      => (child[c].pgid = c /\ child[c].pgid # shell.pgid)

\* C17 witness: in an interactive session a child has reset SIGTSTP, which
\* it inherited ignored, and is in its own group
C17_Witness ==
  \E c \in ChildPids :
    /\ interactive
    /\ child[c].state = "alive" /\ child[c].cpc = "sigint"
    /\ child[c].disp[SIGTSTP] = "DFL"
    /\ child[c].pgid = c /\ shell.pgid # c

\* the quit, stop and terminal background I/O signals
JobSigs == {SIGQUIT, SIGTSTP, SIGTTIN, SIGTTOU}

\* C18 (as claimed): from the end of init_shell until the shell ends,
\* SIGQUIT, SIGTSTP, SIGTTIN and SIGTTOU are ignored by the shell, and
\* none of them has suspended or terminated it.
C18_ShellIgnoresJobSignals ==
  pc \in MainPcs =>
    /\ Live(shell) => \A s \in JobSigs : shell.disp[s] = "IGN"
    /\ shell.state # "stopped"
    /\ ~(shell.state = "zombie" /\ shell.how = "signal"
           /\ shell.val \in JobSigs)

\* C18 (amended): the same, in an interactive session; there, generating
\* any of the four signals for the shell leaves it as it was.
C18_IgnoredWhenInteractive ==
  (interactive /\ pc \in MainPcs) =>
    /\ Live(shell) =>
         \A s \in JobSigs :
           shell.disp[s] = "IGN" /\ Deliver(shell, s) = shell
    /\ shell.state # "stopped"
    /\ ~(shell.state = "zombie" /\ shell.how = "signal"
           /\ shell.val \in JobSigs)

\* C18 witness: an interactive shell reads a line after the environment
\* sent signals and a job ran
C18_Witness ==
  /\ interactive /\ pc = "read" /\ Running
  /\ nsig > 0
  /\ SomeReaped
  /\ \A s \in JobSigs : shell.disp[s] = "IGN"

\* C19: when standard input is no terminal, no step of the shell or of a
\* child changes the terminal's foreground process group (only the job
\* control of the process that started the shell, acting on a shell
\* stopped before init_shell, does), while the child is still put in
\* its own process group and the return of the wait still reports the
\* child's state change.
C19_NoTerminalChangeWithoutTty ==
  /\ [][(~interactive /\ ~(pc = "init" /\ shell.state = "stopped"))
          => tty_fg' = tty_fg]_vars
  /\ [](~interactive =>
          \A c \in ChildPids :
            child[c].cpc \in {"sigtstp", "sigint", "exec", "program"}
              => child[c].pgid = c)
  /\ [][(~interactive /\ pc = "wait" /\ pc' = "reclaim")
          => /\ Waitable(child[cur.pid])
             /\ outcome' = Expected(child[cur.pid], cur.pid)]_vars

\* C19 witness: without a terminal, the prompt after a job was reported
\* as stopped, the job in its own group and the terminal not the job's
C19_Witness ==
  /\ ~interactive /\ pc = "prompt" /\ Running
  /\ outcome.kind = "stopped"
  /\ child[outcome.pid].pgid = outcome.pid
  /\ child[outcome.pid].waits = 1
  /\ tty_fg # outcome.pid

\* C20: in an interactive session every child, from fork to the program
\* it runs, has SIGQUIT, SIGTTIN and SIGTTOU ignored, whatever the protect
\* flag; and no step of a child between fork and the replaced image
\* changes a disposition other than those of SIGTSTP and SIGINT.
C20_InheritedIgnores ==
  /\ [](interactive =>
          \A c \in ChildPids :
            Live(child[c]) =>
              \A s \in {SIGQUIT, SIGTTIN, SIGTTOU} : child[c].disp[s] = "IGN")
  /\ [][\A c \in ChildPids :
          (Live(child[c]) /\ Live(child'[c]))
            => \A s \in {SIGQUIT, SIGTTIN, SIGTTOU} :
                 child'[c].disp[s] = child[c].disp[s]]_vars

\* C20 witness: an unprotected child runs its program in an interactive
\* session with the three signals ignored and SIGINT and SIGTSTP default
C20_Witness ==
  \E c \in ChildPids :
    /\ interactive
    /\ child[c].state = "alive" /\ child[c].cpc = "program"
    /\ ~child[c].protect
    /\ \A s \in {SIGQUIT, SIGTTIN, SIGTTOU} : child[c].disp[s] = "IGN"
    /\ child[c].disp[SIGINT] = "DFL" /\ child[c].disp[SIGTSTP] = "DFL"

====
